---- MODULE Spec2Model ----
(***************************************************************************)
(* State-machine model of bot.py: a Telegram registration bot.  One        *)
(* ConversationHandler (entry /start, states GET_NAME and GET_EMAIL,       *)
(* fallback /cancel) collects a name and an email per user, validates the  *)
(* email with a regular expression, appends a row to a Google Sheet and    *)
(* answers with the group invite link.                                     *)
(*                                                                         *)
(* Text is modelled as a sequence of one-character strings, a Python dict  *)
(* as a function whose DOMAIN is the set of keys present, the sheet as the *)
(* sequence of its rows.  The Application handles one update at a time     *)
(* (bot.py builds it with the default settings) and save_to_google_sheet   *)
(* is a synchronous call, so every handler is one atomic action.  A        *)
(* Google API call either completes or raises without effect.              *)
(***************************************************************************)
EXTENDS Integers, Sequences, FiniteSets, TLC

(* ------------------------------ bounds --------------------------------- *)

\* cap on the number of save_to_google_sheet invocations in one behaviour
MaxCalls == 2
\* longest string handed to is_valid_email on its own
MaxLen == 7
\* updates that wait at most while a handler is running
MaxQueue == 1

(* --------------------------- configuration ----------------------------- *)

GROUP_INVITE_LINK == "GROUP_INVITE_LINK"
None == "None"

GET_NAME == 0
GET_EMAIL == 1
END == -1

\* Telegram user ids of the users that talk to the bot (private chats)
Users == {11, 22}

(* ------------------------------- text ---------------------------------- *)

Lower ==
    {"a","b","c","d","e","f","g","h","i","j","k","l","m",
     "n","o","p","q","r","s","t","u","v","w","x","y","z"}
Upper ==
    {"A","B","C","D","E","F","G","H","I","J","K","L","M",
     "N","O","P","Q","R","S","T","U","V","W","X","Y","Z"}
Digits == {"0","1","2","3","4","5","6","7","8","9"}

\* [a-zA-Z0-9._%+-]
LocalChars == Lower \cup Upper \cup Digits \cup {".", "_", "%", "+", "-"}
\* [a-zA-Z0-9.-]
DomainChars == Lower \cup Upper \cup Digits \cup {".", "-"}
\* [a-zA-Z]
TldChars == Lower \cup Upper

AllIn(s, lo, hi, cls) == \A k \in lo..hi : s[k] \in cls

\* the pattern without its anchors, matched against the whole of s:
\* [a-zA-Z0-9._%+-]+ @ [a-zA-Z0-9.-]+ \. [a-zA-Z]{2,}
FullMatch(s) ==
    \E i \in 2..Len(s) : \E j \in (i + 2)..(Len(s) - 2) :
        /\ s[i] = "@"
        /\ AllIn(s, 1, i - 1, LocalChars)
        /\ AllIn(s, i + 1, j - 1, DomainChars)
        /\ s[j] = "."
        /\ AllIn(s, j + 1, Len(s), TldChars)

\* re.match(regex, email) is not None.  '^' anchors at the start; '$'
\* matches at the end of the string and also just before a newline that is
\* the last character of the string.
is_valid_email(email) ==
    \/ FullMatch(email)
    \/ /\ Len(email) >= 1
       /\ email[Len(email)] = "\n"
       /\ FullMatch(SubSeq(email, 1, Len(email) - 1))

(* ------------------------------ clock ---------------------------------- *)

DigitChar == <<"0","1","2","3","4","5","6","7","8","9">>

Pad2(n) == <<DigitChar[((n \div 10) % 10) + 1], DigitChar[(n % 10) + 1]>>
Pad4(n) == Pad2(n \div 100) \o Pad2(n % 100)

\* the local date of the run; an instant is the number of seconds since its
\* midnight
Today == [year |-> 2025, month |-> 1, day |-> 1]

\* the instants datetime.now() returns during the run: the program only
\* reads the local wall clock, which need not advance between two calls
Instants == {59}

\* datetime.now().strftime("%Y-%m-%d %H:%M:%S")
strftime(t) ==
    Pad4(Today.year) \o <<"-">> \o Pad2(Today.month) \o <<"-">> \o Pad2(Today.day)
    \o <<" ">> \o Pad2(t \div 3600) \o <<":">> \o Pad2((t \div 60) % 60)
    \o <<":">> \o Pad2(t % 60)

(* ------------------------- Record Store Adapter ------------------------ *)

headers ==
    << <<"N","o","m","e"," ","C","o","g","n","o","m","e">>,
       <<"E","m","a","i","l">>,
       <<"I","D"," ","T","e","l","e","g","r","a","m">>,
       <<"D","a","t","a"," ","R","e","g","i","s","t","r","a","z","i","o","n","e">> >>

\* the calls of save_to_google_sheet that reach the Google API, in order
Steps == <<"from_service_account_file", "authorize", "open_by_key", "sheet1",
           "get", "append_headers", "append_new_row">>

\* exception classes a call can raise
Categories == {"SpreadsheetNotFound", "APIError", "Exception"}

NoFault == [step |-> None, category |-> None]
Faults == {NoFault} \cup [step : {Steps[k] : k \in 1..Len(Steps)}, category : Categories]

\* variant: the last clause, except Exception, is missing
Caught_no_generic == {"SpreadsheetNotFound", "APIError"}

\* the except clauses of save_to_google_sheet: SpreadsheetNotFound, APIError
\* and Exception, the base class of every exception a step can raise
Caught == {"SpreadsheetNotFound", "APIError", "Exception"}

\* variant: the header check always finds A1 empty
get_A1_empty(sheet) == <<>>

\* variant: the header check reads A2
get_A2(sheet) == IF Len(sheet) < 2 THEN <<>> ELSE <<sheet[2][1]>>

\* sheet.get('A1'): the values of the range A1, empty when the cell is empty
get_A1(sheet) == IF Len(sheet) = 0 THEN <<>> ELSE <<sheet[1][1]>>

\* variant: the row is inserted above the first row
insert_row_top(sheet, values) == <<values>> \o sheet

\* sheet.append_row(values): the row goes after the last row of the table
append_row(sheet, values) == Append(sheet, values)

new_row(user_info, t) ==
    <<user_info["name"], user_info["email"], user_info["user_id"], strftime(t)>>

\* fault.step raises when the call reaches it; a step the call does not
\* execute (the header append on a sheet that has A1) cannot raise
Raises(fault, step) == fault.step = step

\* variant: the test of the header check is inverted
header_present(sheet) == get_A1(sheet) # <<>>

\* if not sheet.get('A1')
header_missing(sheet) == get_A1(sheet) = <<>>

\* The try block, step by step.  Result: the sheet afterwards, the
\* exception raised inside the try block (None when it ran to the end).
try_block(user_info, fault, sheet, t) ==
    IF \E k \in 1..4 : Raises(fault, Steps[k])
    THEN [sheet |-> sheet, raised |-> fault.category]
    ELSE IF Raises(fault, "get")
    THEN [sheet |-> sheet, raised |-> fault.category]
    ELSE
      LET needs_header == header_missing(sheet)
          with_header == IF needs_header THEN append_row(sheet, headers) ELSE sheet
      IN IF needs_header /\ Raises(fault, "append_headers")
         THEN [sheet |-> sheet, raised |-> fault.category]
         ELSE IF {"name", "email", "user_id"} \subseteq DOMAIN user_info
         THEN IF Raises(fault, "append_new_row")
              THEN [sheet |-> with_header, raised |-> fault.category]
              ELSE [sheet |-> append_row(with_header, new_row(user_info, t)),
                    raised |-> None]
         ELSE [sheet |-> with_header, raised |-> "Exception"]

\* variant: the SpreadsheetNotFound clause raises again after logging
save_to_google_sheet_reraise(user_info, fault, sheet, t) ==
    LET r == try_block(user_info, fault, sheet, t)
    IN IF r.raised = None
       THEN [sheet |-> r.sheet, ret |-> TRUE, propagated |-> None]
       ELSE IF r.raised \in Caught \ {"SpreadsheetNotFound"}
       THEN [sheet |-> r.sheet, ret |-> FALSE, propagated |-> None]
       ELSE [sheet |-> r.sheet, ret |-> FALSE, propagated |-> r.raised]

\* variant: the except clauses return True
save_to_google_sheet_true(user_info, fault, sheet, t) ==
    LET r == try_block(user_info, fault, sheet, t)
    IN IF r.raised = None
       THEN [sheet |-> r.sheet, ret |-> TRUE, propagated |-> None]
       ELSE IF r.raised \in Caught
       THEN [sheet |-> r.sheet, ret |-> TRUE, propagated |-> None]
       ELSE [sheet |-> r.sheet, ret |-> FALSE, propagated |-> r.raised]

\* save_to_google_sheet(user_info).  ret is the returned boolean; when the
\* exception is not caught it leaves the function and propagated names it.
save_to_google_sheet(user_info, fault, sheet, t) ==
    LET r == try_block(user_info, fault, sheet, t)
    IN IF r.raised = None
       THEN [sheet |-> r.sheet, ret |-> TRUE, propagated |-> None]
       ELSE IF r.raised \in Caught
       THEN [sheet |-> r.sheet, ret |-> FALSE, propagated |-> None]
       ELSE [sheet |-> r.sheet, ret |-> FALSE, propagated |-> r.raised]

(* ------------------------------ updates -------------------------------- *)

\* texts a user can send: two commands of the bot, a command it does not
\* know, a text that is not an email, and an email address
Start_ == <<"/","s","t","a","r","t">>
Cancel_ == <<"/","c","a","n","c","e","l">>
Help_ == <<"/","h","e","l","p">>
Al_ == <<"A","l">>
Mail_ == <<"a","@","b",".","c","o">>
Texts == {Start_, Cancel_, Help_, Al_, Mail_}

\* an update is a message of a user: a text message or a photo without text
Updates == [kind : {"text"}, text : Texts] \cup {[kind |-> "photo", text |-> <<>>]}

CommandChars == Lower \cup Upper \cup Digits \cup {"_"}

\* filters.TEXT: the message has a text
filters_TEXT(upd) == upd.kind = "text"

\* filters.COMMAND: the text starts with a bot command ('/' and a word)
filters_COMMAND(upd) ==
    /\ upd.kind = "text"
    /\ Len(upd.text) >= 2
    /\ upd.text[1] = "/"
    /\ upd.text[2] \in CommandChars

\* the command word of a command message: the text after '/' up to the
\* first character that cannot be part of a command
CommandWord(text) ==
    LET stops == {k \in 2..Len(text) : text[k] \notin CommandChars}
        last == IF stops = {} THEN Len(text)
                ELSE (CHOOSE k \in stops : \A m \in stops : k <= m) - 1
    IN SubSeq(text, 2, last)

\* CommandHandler(name, ...) accepts the update
CommandHandler(name, upd) == filters_COMMAND(upd) /\ CommandWord(upd.text) = name

\* MessageHandler(filters.TEXT & ~filters.COMMAND, ...) accepts the update
MessageHandler(upd) == filters_TEXT(upd) /\ ~filters_COMMAND(upd)

\* variant: allow_reentry, the entry points are tried within a conversation
check_update_reentry(conv, u, upd) ==
    IF CommandHandler(SubSeq(Start_, 2, 6), upd) THEN "start"
    ELSE IF u \notin DOMAIN conv THEN "none"
    ELSE IF conv[u] = GET_NAME /\ MessageHandler(upd) THEN "get_name"
    ELSE IF conv[u] = GET_EMAIL /\ MessageHandler(upd) THEN "get_email"
    ELSE IF CommandHandler(SubSeq(Cancel_, 2, 7), upd) THEN "cancel"
    ELSE "none"

\* variant: the fallbacks are tried without a conversation
check_update_idle_fallback(conv, u, upd) ==
    IF u \notin DOMAIN conv /\ CommandHandler(SubSeq(Start_, 2, 6), upd) THEN "start"
    ELSE IF u \in DOMAIN conv /\ conv[u] = GET_NAME /\ MessageHandler(upd)
    THEN "get_name"
    ELSE IF u \in DOMAIN conv /\ conv[u] = GET_EMAIL /\ MessageHandler(upd)
    THEN "get_email"
    ELSE IF CommandHandler(SubSeq(Cancel_, 2, 7), upd) THEN "cancel"
    ELSE "none"

\* variant: the cancel fallback is tried only in GET_NAME
check_update_no_fallback(conv, u, upd) ==
    IF u \notin DOMAIN conv
    THEN IF CommandHandler(SubSeq(Start_, 2, 6), upd) THEN "start" ELSE "none"
    ELSE IF conv[u] = GET_NAME /\ MessageHandler(upd) THEN "get_name"
    ELSE IF conv[u] = GET_EMAIL /\ MessageHandler(upd) THEN "get_email"
    ELSE IF conv[u] = GET_NAME /\ CommandHandler(SubSeq(Cancel_, 2, 7), upd) THEN "cancel"
    ELSE "none"

\* ConversationHandler(entry_points, states, fallbacks): the callback that
\* handles upd of user u, "none" when no handler accepts it.  Without a
\* conversation only the entry points are tried; within one the handlers
\* of the current state and then the fallbacks.
check_update(conv, u, upd) ==
    IF u \notin DOMAIN conv
    THEN IF CommandHandler(SubSeq(Start_, 2, 6), upd) THEN "start" ELSE "none"
    ELSE IF conv[u] = GET_NAME /\ MessageHandler(upd) THEN "get_name"
    ELSE IF conv[u] = GET_EMAIL /\ MessageHandler(upd) THEN "get_email"
    ELSE IF CommandHandler(SubSeq(Cancel_, 2, 7), upd) THEN "cancel"
    ELSE "none"

\* the conversation state after a callback returned new_state: END removes
\* the conversation of the user
update_state(conv, u, new_state) ==
    IF new_state = END
    THEN [v \in DOMAIN conv \ {u} |-> conv[v]]
    ELSE [v \in DOMAIN conv \cup {u} |-> IF v = u THEN new_state ELSE conv[v]]

(* ------------------------------ replies -------------------------------- *)

Reply(text, url) == [text |-> text, url |-> url]
NoReply == Reply(None, None)

\* context.user_data.clear()
clear(data) == <<>>

\* data[key] = value
setitem(data, key, value) ==
    [k \in DOMAIN data \cup {key} |-> IF k = key THEN value ELSE data[k]]

(* ------------------------------ handlers ------------------------------- *)
\* A handler maps the user's user_data and the update to: the state it
\* returns (ret), the user_data afterwards, the reply it sends (NoReply when
\* it sends none), and whether an exception left it (raised).

start(data, u, upd) ==
    [ret |-> GET_NAME, user_data |-> data,
     reply |-> Reply("greeting", None), raised |-> FALSE]

\* variant: get_name does not store the text
get_name_forgets(data, u, upd) ==
    [ret |-> GET_EMAIL, user_data |-> data,
     reply |-> Reply("ask_email", None), raised |-> FALSE]

get_name(data, u, upd) ==
    [ret |-> GET_EMAIL, user_data |-> setitem(data, "name", upd.text),
     reply |-> Reply("ask_email", None), raised |-> FALSE]

\* variant: cancel without user_data.clear()
cancel_keeps(data, u, upd) ==
    [ret |-> END, user_data |-> data,
     reply |-> Reply("cancelled", None), raised |-> FALSE]

cancel(data, u, upd) ==
    [ret |-> END, user_data |-> clear(data),
     reply |-> Reply("cancelled", None), raised |-> FALSE]

\* variant: the invite link is sent whatever the store answered
registration_reply_always_link(saved) ==
    Reply("success", GROUP_INVITE_LINK)

\* the reply of get_email after save_to_google_sheet returned saved
registration_reply(saved) ==
    IF saved
    THEN Reply("success", GROUP_INVITE_LINK)
    ELSE Reply("failure", None)

\* variant: after a failed save the conversation stays in GET_EMAIL
finish_retry(data, saved) ==
    [ret |-> IF saved THEN END ELSE GET_EMAIL,
     user_data |-> IF saved THEN clear(data) ELSE data,
     reply |-> registration_reply(saved), raised |-> FALSE]

\* the end of get_email, after save_to_google_sheet returned saved: the
\* reply, user_data.clear() and the return of ConversationHandler.END
finish(data, saved) ==
    [ret |-> END, user_data |-> clear(data),
     reply |-> registration_reply(saved), raised |-> FALSE]

\* variant: an invalid email ends the conversation
invalid_email_ends(data) ==
    [ret |-> END, user_data |-> data,
     reply |-> Reply("invalid_email", None), raised |-> FALSE]

\* the reply and the returned state of get_email for a text that is not a
\* valid email
invalid_email(data) ==
    [ret |-> GET_EMAIL, user_data |-> data,
     reply |-> Reply("invalid_email", None), raised |-> FALSE]

\* variant: name and email change places
build_user_info_swapped(data, u) ==
    [k \in {"name", "email", "user_id"} |->
        IF k = "user_id" THEN u
        ELSE IF k = "name" THEN data["email"] ELSE data["name"]]

\* user_info as get_email builds it; a missing 'name' raises KeyError
build_user_info(data, u) ==
    [k \in {"name", "email", "user_id"} |->
        IF k = "user_id" THEN u ELSE data[k]]

\* get_email.  Besides the fields of a handler result: called tells whether
\* save_to_google_sheet was invoked, saved what it returned, sheet the sheet
\* afterwards.
get_email(data, u, upd, fault, sheet, t) ==
    IF ~is_valid_email(upd.text)
    THEN invalid_email(data) @@ [called |-> FALSE, saved |-> FALSE, sheet |-> sheet]
    ELSE
      LET with_email == setitem(data, "email", upd.text)
      IN IF "name" \notin DOMAIN with_email
         THEN [ret |-> None, user_data |-> with_email, reply |-> NoReply,
               raised |-> TRUE, called |-> FALSE, saved |-> FALSE, sheet |-> sheet]
         ELSE
           LET user_info == build_user_info(with_email, u)
               r == save_to_google_sheet(user_info, fault, sheet, t)
           IN IF r.propagated # None
              THEN [ret |-> None, user_data |-> with_email, reply |-> NoReply,
                    raised |-> TRUE, called |-> TRUE, saved |-> FALSE,
                    sheet |-> r.sheet]
              ELSE finish(with_email, r.ret)
                   @@ [called |-> TRUE, saved |-> r.ret, sheet |-> r.sheet]

(* ------------------------------- state --------------------------------- *)

VARIABLES
    phase,          \* where main is: "startup", "polling" or "crashed"
    conversations,  \* the ConversationHandler's dict: user |-> state
    user_data,      \* context.user_data of every user
    sheet,          \* the rows of sheet1 of the Google Sheet
    inflight,       \* the get_email call suspended at its reply, <<>> when none
    queue,          \* updates that arrived while a handler was suspended
    diag,           \* history: what debug_google_access logged
    last_reply,     \* history: the last reply sent to every user
    sent,           \* history: the replies sent to a user since their last start
    writes,         \* history: save_to_google_sheet calls since the user's last start
    heard,          \* history: the text get_name received in the user's conversation
    calls,          \* history: number of save_to_google_sheet calls
    records,        \* history: user_info and time of the calls that returned True
    orphan,         \* history: a call wrote the header and failed before its data row
    dropped,        \* history: "none", or whether the update just dropped came
                    \* from a user with a "conversation" or from an "idle" one
    candidate,      \* a string handed to is_valid_email on its own
    verdict         \* <<>>, or <<b>> once is_valid_email(candidate) returned b

vars == <<phase, conversations, user_data, sheet, inflight, queue, diag,
          last_reply, sent, writes, heard, calls, records, orphan, dropped,
          candidate, verdict>>

\* the variables of the conversation flow and of the store
flow == <<conversations, user_data, sheet, last_reply, sent, writes, heard,
          calls, records, orphan>>

InitFlow ==
    /\ conversations = <<>>
    /\ user_data = [u \in Users |-> <<>>]
    /\ sheet = <<>>
    /\ inflight = <<>>
    /\ queue = <<>>
    /\ last_reply = [u \in Users |-> NoReply]
    /\ sent = [u \in Users |-> {}]
    /\ writes = [u \in Users |-> 0]
    /\ heard = [u \in Users |-> <<>>]
    /\ calls = 0
    /\ records = <<>>
    /\ orphan = FALSE
    /\ dropped = "none"

\* the bot when run_polling starts to deliver updates
Init ==
    /\ phase = "polling"
    /\ diag = "none"
    /\ InitFlow
    /\ candidate = <<>>
    /\ verdict = <<>>

\* variant: one user_data dict for all users
Handled_shared(u, h) ==
    /\ conversations' =
          IF h.raised THEN conversations ELSE update_state(conversations, u, h.ret)
    /\ user_data' = [v \in Users |-> h.user_data]
    /\ last_reply' =
          IF h.reply = NoReply THEN last_reply ELSE [last_reply EXCEPT ![u] = h.reply]
    /\ heard' = [heard EXCEPT ![u] = IF u \in DOMAIN conversations' THEN @ ELSE <<>>]

\* what the Application does with the result h of the callback of user u
Handled(u, h) ==
    /\ conversations' =
          IF h.raised THEN conversations ELSE update_state(conversations, u, h.ret)
    /\ user_data' = [user_data EXCEPT ![u] = h.user_data]
    /\ last_reply' =
          IF h.reply = NoReply THEN last_reply ELSE [last_reply EXCEPT ![u] = h.reply]
    /\ heard' = [heard EXCEPT ![u] = IF u \in DOMAIN conversations' THEN @ ELSE <<>>]

\* The handlers as steps of the flow.  The steps say nothing about inflight
\* and queue: the actions below and those of SpecAsync do.

StartStep(u, upd) ==
    /\ phase = "polling"
    /\ check_update(conversations, u, upd) = "start"
    /\ LET h == start(user_data[u], u, upd)
       IN /\ Handled(u, h)
          /\ sent' = [sent EXCEPT ![u] = {h.reply}]
          /\ writes' = [writes EXCEPT ![u] = 0]
    /\ dropped' = "none"
    /\ UNCHANGED <<candidate, verdict, phase, diag, sheet, calls, records, orphan>>

GetNameStep(u, upd) ==
    /\ phase = "polling"
    /\ check_update(conversations, u, upd) = "get_name"
    /\ LET h == get_name(user_data[u], u, upd)
       IN /\ conversations' = update_state(conversations, u, h.ret)
          /\ user_data' = [user_data EXCEPT ![u] = h.user_data]
          /\ last_reply' = [last_reply EXCEPT ![u] = h.reply]
          /\ heard' = [heard EXCEPT ![u] = upd.text]
          /\ sent' = [sent EXCEPT ![u] = @ \cup {h.reply}]
    /\ dropped' = "none"
    /\ UNCHANGED <<candidate, verdict, phase, diag, sheet, writes, calls, records, orphan>>

\* what the call of save_to_google_sheet inside get_email leaves behind
Saved(u, upd, now, h) ==
    /\ sheet' = h.sheet
    /\ writes' = [writes EXCEPT ![u] = IF h.called THEN @ + 1 ELSE @]
    /\ calls' = IF h.called THEN calls + 1 ELSE calls
    /\ records' =
          IF h.saved
          THEN Append(records,
                      [user_info |-> build_user_info(
                           setitem(user_data[u], "email", upd.text), u),
                       time |-> now])
          ELSE records
    /\ orphan' = (orphan \/ (h.called /\ Len(sheet) = 0 /\ Len(h.sheet) = 1))

GetEmailStep(u, upd, fault, now) ==
    /\ phase = "polling"
    /\ check_update(conversations, u, upd) = "get_email"
    /\ is_valid_email(upd.text) => calls < MaxCalls
    /\ LET h == get_email(user_data[u], u, upd, fault, sheet, now)
       IN /\ Handled(u, h)
          /\ Saved(u, upd, now, h)
          /\ sent' = [sent EXCEPT ![u] = @ \cup ({h.reply} \ {NoReply})]
    /\ dropped' = "none"
    /\ UNCHANGED <<candidate, verdict, phase, diag>>

CancelStep(u, upd) ==
    /\ phase = "polling"
    /\ check_update(conversations, u, upd) = "cancel"
    /\ LET h == cancel(user_data[u], u, upd)
       IN /\ Handled(u, h)
          /\ sent' = [sent EXCEPT ![u] = @ \cup {h.reply}]
    /\ dropped' = "none"
    /\ UNCHANGED <<candidate, verdict, phase, diag, sheet, writes, calls, records, orphan>>

\* no handler accepts the update: the Application drops it
IgnoredStep(u, upd) ==
    /\ phase = "polling"
    /\ check_update(conversations, u, upd) = "none"
    /\ dropped' = IF u \in DOMAIN conversations THEN "conversation" ELSE "idle"
    /\ UNCHANGED <<candidate, verdict, phase, diag>>
    /\ UNCHANGED flow

\* The Application takes the updates one by one and runs the handler of each
\* to its end.

Start(u, upd) == StartStep(u, upd) /\ UNCHANGED <<inflight, queue>>

GetName(u, upd) == GetNameStep(u, upd) /\ UNCHANGED <<inflight, queue>>

GetEmail(u, upd, fault, now) ==
    GetEmailStep(u, upd, fault, now) /\ UNCHANGED <<inflight, queue>>

Cancel(u, upd) == CancelStep(u, upd) /\ UNCHANGED <<inflight, queue>>

Ignored(u, upd) == IgnoredStep(u, upd) /\ UNCHANGED <<inflight, queue>>

Next ==
    \/ \E u \in Users, upd \in Updates : Start(u, upd)
    \/ \E u \in Users, upd \in Updates : GetName(u, upd)
    \/ \E u \in Users, upd \in Updates, fault \in Faults, now \in Instants :
          GetEmail(u, upd, fault, now)
    \/ \E u \in Users, upd \in Updates : Cancel(u, upd)
    \/ \E u \in Users, upd \in Updates : Ignored(u, upd)

Spec == Init /\ [][Next]_vars

TypeOK ==
    /\ phase \in {"startup", "polling", "crashed"}
    /\ DOMAIN conversations \subseteq Users
    /\ \A u \in DOMAIN conversations : conversations[u] \in {GET_NAME, GET_EMAIL}
    /\ \A u \in Users : DOMAIN user_data[u] \subseteq {"name", "email"}
    /\ calls \in 0..MaxCalls
    /\ orphan \in BOOLEAN
    /\ dropped \in {"none", "idle", "conversation"}

(* ------------------------------- startup ------------------------------- *)

\* the calls of debug_google_access that can raise, in order
DebugSteps == <<"from_service_account_file", "authorize", "open_by_key", "title">>

DebugFaults ==
    {NoFault} \cup [step : {DebugSteps[k] : k \in 1..Len(DebugSteps)},
                    category : Categories]

\* variant: the last clause, except Exception, is missing
DebugCaught_no_generic == {"SpreadsheetNotFound"}

\* the except clauses of debug_google_access
DebugCaught == {"SpreadsheetNotFound", "Exception"}

\* an except clause of clauses takes an exception of class category: its own
\* class or Exception, the base class of the others
Catches(clauses, category) == category \in clauses \/ "Exception" \in clauses

\* debug_google_access(): what it logs, and the exception that leaves it
\* (None when it returns)
debug_google_access(fault) ==
    IF fault = NoFault
    THEN [log |-> "opened", propagated |-> None]
    ELSE IF ~Catches(DebugCaught, fault.category)
    THEN [log |-> "none", propagated |-> fault.category]
    ELSE IF fault.category = "SpreadsheetNotFound"
    THEN [log |-> "not_found", propagated |-> None]
    ELSE [log |-> "error", propagated |-> None]

\* main before any update is handled
InitStartup ==
    /\ phase = "startup"
    /\ diag = "none"
    /\ InitFlow
    /\ candidate = <<>>
    /\ verdict = <<>>

\* main up to run_polling: the diagnostic, then the Application is built and
\* polls; an exception out of the diagnostic ends main
Debug(fault) ==
    /\ phase = "startup"
    /\ LET r == debug_google_access(fault)
       IN /\ diag' = r.log
          /\ phase' = IF r.propagated = None THEN "polling" ELSE "crashed"
    /\ UNCHANGED <<inflight, queue, dropped, candidate, verdict>>
    /\ UNCHANGED flow

NextStartup ==
    \/ \E fault \in DebugFaults : Debug(fault)
    \/ Next

SpecStartup == InitStartup /\ [][NextStartup]_vars

(* ------------------ get_email with its suspension point ---------------- *)

\* get_email runs from its first line to the end of save_to_google_sheet
\* without an await: the call of the store blocks the event loop.  It is
\* suspended once, in the await of the reply that follows.  inflight holds
\* the handler between its steps: stage "writing" from the acceptance of
\* the email to the return of save_to_google_sheet, stage "replying" from
\* there to the return of the handler.  Updates that arrive meanwhile wait
\* in queue.

\* the updates that arrive while a handler is running
Arrivals == {[kind |-> "text", text |-> t] : t \in {Cancel_, Start_}}

\* variant: Application.builder().concurrent_updates(True), the next update
\* is processed as soon as the running handler awaits
Concurrent == IF inflight = <<>> THEN TRUE ELSE inflight[1].stage = "replying"

\* the Application processes the next update when the handler of the
\* previous one has returned
Sequential == inflight = <<>>

\* the Application takes the update upd of user u: the oldest one waiting,
\* or one that arrives when none waits and no handler runs
Taken(u, upd) ==
    /\ Sequential
    /\ IF queue = <<>>
       THEN inflight = <<>> /\ queue' = queue
       ELSE /\ Head(queue).user = u
            /\ Head(queue).upd = upd
            /\ queue' = Tail(queue)

\* an update arrives while get_email is running
Arrive(u, upd) ==
    /\ phase = "polling"
    /\ inflight # <<>>
    /\ Len(queue) < MaxQueue
    /\ queue' = Append(queue, [user |-> u, upd |-> upd, at |-> inflight[1].stage])
    /\ UNCHANGED <<phase, diag, inflight, dropped, candidate, verdict>>
    /\ UNCHANGED flow

AsyncStart(u, upd) == Taken(u, upd) /\ StartStep(u, upd) /\ UNCHANGED inflight

AsyncGetName(u, upd) == Taken(u, upd) /\ GetNameStep(u, upd) /\ UNCHANGED inflight

AsyncCancel(u, upd) == Taken(u, upd) /\ CancelStep(u, upd) /\ UNCHANGED inflight

AsyncIgnored(u, upd) == Taken(u, upd) /\ IgnoredStep(u, upd) /\ UNCHANGED inflight

\* get_email, the email is not valid: the whole handler
Reject(u, upd) ==
    /\ Taken(u, upd)
    /\ ~is_valid_email(upd.text)
    /\ \E now \in Instants : GetEmailStep(u, upd, NoFault, now)
    /\ UNCHANGED inflight

\* get_email, the email is valid: up to the call of save_to_google_sheet
Accept(u, upd) ==
    /\ phase = "polling"
    /\ Taken(u, upd)
    /\ inflight = <<>>
    /\ check_update(conversations, u, upd) = "get_email"
    /\ is_valid_email(upd.text)
    /\ calls < MaxCalls
    /\ user_data' = [user_data EXCEPT ![u] = setitem(@, "email", upd.text)]
    /\ inflight' = <<[user |-> u, upd |-> upd, stage |-> "writing", saved |-> FALSE]>>
    /\ dropped' = "none"
    /\ UNCHANGED <<phase, diag, candidate, verdict, conversations, sheet,
                   last_reply, sent, writes, heard, calls, records, orphan>>

\* get_email: save_to_google_sheet runs and returns, or an exception leaves
\* the handler
Write(fault, now) ==
    /\ inflight # <<>>
    /\ inflight[1].stage = "writing"
    /\ LET u == inflight[1].user
           upd == inflight[1].upd
           h == get_email(user_data[u], u, upd, fault, sheet, now)
       IN /\ Saved(u, upd, now, h)
          /\ inflight' = IF h.raised THEN <<>>
                         ELSE <<[inflight[1] EXCEPT !.stage = "replying",
                                                    !.saved = h.saved]>>
    /\ UNCHANGED <<phase, diag, queue, dropped, candidate, verdict,
                   conversations, user_data, last_reply, sent, heard>>

\* get_email: the reply is sent, user_data is cleared, the handler returns END
ReplyStep ==
    /\ inflight # <<>>
    /\ inflight[1].stage = "replying"
    /\ LET u == inflight[1].user
           h == finish(user_data[u], inflight[1].saved)
       IN /\ Handled(u, h)
          /\ sent' = [sent EXCEPT ![u] = @ \cup {h.reply}]
    /\ inflight' = <<>>
    /\ UNCHANGED <<phase, diag, queue, dropped, candidate, verdict,
                   sheet, writes, calls, records, orphan>>

NextAsync ==
    \/ \E u \in Users, upd \in Updates : AsyncStart(u, upd)
    \/ \E u \in Users, upd \in Updates : AsyncGetName(u, upd)
    \/ \E u \in Users, upd \in Updates : AsyncCancel(u, upd)
    \/ \E u \in Users, upd \in Updates : AsyncIgnored(u, upd)
    \/ \E u \in Users, upd \in Updates : Reject(u, upd)
    \/ \E u \in Users, upd \in Updates : Accept(u, upd)
    \/ \E fault \in Faults, now \in Instants : Write(fault, now)
    \/ ReplyStep
    \/ \E u \in Users, upd \in Arrivals : Arrive(u, upd)

SpecAsync == Init /\ [][NextAsync]_vars

(* ----------------------- the validator on its own ---------------------- *)

\* characters of the candidates: a letter, a digit, '@', '.', a space and a
\* newline
Alphabet == {"a", "1", "@", ".", " ", "\n"}

Candidates == UNION {[1..n -> Alphabet] : n \in 0..MaxLen}

InitValidator ==
    /\ phase = "polling"
    /\ diag = "none"
    /\ InitFlow
    /\ candidate \in Candidates
    /\ verdict = <<>>

\* one call is_valid_email(candidate)
Validate ==
    /\ verdict = <<>>
    /\ verdict' = <<is_valid_email(candidate)>>
    /\ UNCHANGED <<candidate, phase, diag, inflight, queue, dropped>>
    /\ UNCHANGED flow

NextValidator == Validate

SpecValidator == InitValidator /\ [][NextValidator]_vars

(* ------------------------------ properties ----------------------------- *)

Idle(u) == u \notin DOMAIN conversations
InState(u, state) == u \in DOMAIN conversations /\ conversations[u] = state
CancelUpdate == [kind |-> "text", text |-> Cancel_]

\* C1: when get_email handles a valid email (the step that calls the store),
\* the reply carries the invite link exactly when save_to_google_sheet
\* returned True; when it returned False the reply is the technical-failure
\* notice and no reply of that conversation carries the invite link.
C1_InviteIffSaved ==
    [][\A u \in Users :
         writes'[u] = writes[u] + 1 =>
           /\ (last_reply'[u].url = GROUP_INVITE_LINK)
                 <=> (Len(records') = Len(records) + 1)
           /\ Len(records') = Len(records) =>
                 /\ last_reply'[u] = Reply("failure", None)
                 /\ \A r \in sent'[u] : r.url # GROUP_INVITE_LINK]_vars

\* one user got the failure notice, the other the invite link
C1_Witness ==
    \E u, v \in Users :
        /\ Idle(u) /\ writes[u] = 1 /\ last_reply[u] = Reply("failure", None)
        /\ Idle(v) /\ writes[v] = 1 /\ last_reply[v] = Reply("success", GROUP_INVITE_LINK)

\* C2: in GET_EMAIL a text that fails the validator is answered with the
\* re-prompt, the state stays GET_EMAIL, the name is unchanged, no email is
\* stored and the store is not called, however many invalid texts came
\* before; a valid email after re-prompts is saved with the name get_name
\* received.
C2_InvalidEmailRetries ==
    [][\A u \in Users :
         /\ \A upd \in Updates :
              (/\ InState(u, GET_EMAIL)
               /\ MessageHandler(upd)
               /\ ~is_valid_email(upd.text)
               /\ \E fault \in Faults, now \in Instants : GetEmail(u, upd, fault, now))
              => /\ last_reply'[u] = Reply("invalid_email", None)
                 /\ u \in DOMAIN conversations'
                 /\ conversations'[u] = GET_EMAIL
                 /\ user_data'[u] = user_data[u]
                 /\ "email" \notin DOMAIN user_data'[u]
                 /\ sheet' = sheet
                 /\ calls' = calls
                 /\ writes' = writes
         /\ (/\ Reply("invalid_email", None) \in sent[u]
             /\ writes'[u] = writes[u] + 1
             /\ Len(records') = Len(records) + 1)
            => /\ Idle(u)'
               /\ sheet'[Len(sheet')][1] = heard[u]
               /\ "name" \in DOMAIN user_data[u]
               /\ heard[u] = user_data[u]["name"]]_vars

\* a registration completed after a re-prompt
C2_Witness ==
    \E u \in Users :
        /\ Reply("invalid_email", None) \in sent[u]
        /\ last_reply[u] = Reply("success", GROUP_INVITE_LINK)
        /\ Len(sheet) = 2

C4_CancelAlways ==
    /\ [](\A u \in DOMAIN conversations :
             check_update(conversations, u, CancelUpdate) = "cancel")
    /\ [][\A u \in Users :
            (~Idle(u) /\ Cancel(u, CancelUpdate)) =>
              /\ last_reply'[u] = Reply("cancelled", None)
              /\ DOMAIN user_data'[u] = {}
              /\ Idle(u)'
              /\ sheet' = sheet
              /\ calls' = calls
              /\ records' = records]_vars

\* a conversation cancelled after an invalid-email re-prompt
C4_Witness ==
    \E u \in Users :
        /\ Idle(u)
        /\ last_reply[u] = Reply("cancelled", None)
        /\ Reply("invalid_email", None) \in sent[u]
        /\ writes[u] = 0

\* C5: between a start and the end of the conversation the store is called
\* at most once, and only by get_email in GET_EMAIL on a text the validator
\* accepts; after the call, failed or not, the conversation is over, so
\* another call takes a new start.
C5_OneWritePerConversation ==
    /\ [](\A u \in Users : writes[u] <= 1 /\ (writes[u] = 1 => Idle(u)))
    /\ [][calls' # calls =>
            /\ calls' = calls + 1
            /\ \E u \in Users, upd \in Updates, fault \in Faults, now \in Instants :
                 /\ InState(u, GET_EMAIL)
                 /\ MessageHandler(upd)
                 /\ is_valid_email(upd.text)
                 /\ GetEmail(u, upd, fault, now)
                 /\ writes' = [writes EXCEPT ![u] = 1]]_vars

\* a user whose first registration failed in the store registers again
C5_Witness ==
    \E u \in Users :
        /\ calls = 2
        /\ Len(records) = 1
        /\ \A v \in Users \ {u} : sent[v] = {}
        /\ last_reply[u] = Reply("success", GROUP_INVITE_LINK)

\* C6: the row of a successful registration holds the text get_name received
\* in the same conversation, the validator-passing text get_email received
\* and the id of the sender; every data row of the sheet has an email the
\* validator accepts.
C6_RecordMatchesInput ==
    /\ [](\A k \in 2..Len(sheet) : is_valid_email(sheet[k][2]))
    /\ [][\A u \in Users :
            (writes'[u] = writes[u] + 1 /\ Len(records') = Len(records) + 1) =>
               LET row == sheet'[Len(sheet')]
               IN /\ Len(sheet') >= 2
                  /\ row[1] = heard[u]
                  /\ row[3] = u
                  /\ \E upd \in Updates :
                        /\ MessageHandler(upd)
                        /\ is_valid_email(upd.text)
                        /\ row[2] = upd.text
                        /\ \E now \in Instants : GetEmail(u, upd, NoFault, now)]_vars

\* a saved row whose name differs from its email
C6_Witness ==
    /\ Len(sheet) >= 2
    /\ sheet[2][1] = Al_
    /\ sheet[2][2] = Mail_
    /\ sheet[2][3] \in Users
    /\ Len(records) >= 1

\* the fault raises in a call of save_to_google_sheet on sheet s: its step
\* is one the call executes
Strikes(fault, s) ==
    /\ fault # NoFault
    /\ fault.step = "append_headers" => get_A1(s) = <<>>

\* C7: for every step and every exception class, a call of
\* save_to_google_sheet that meets the failure returns False and lets no
\* exception out; it returns True only when the data row was appended.
C7_AdapterNeverRaises ==
    /\ [](\A u \in Users : \A fault \in Faults : \A now \in Instants :
            (InState(u, GET_EMAIL) /\ "name" \in DOMAIN user_data[u]) =>
               LET user_info == build_user_info(
                                   setitem(user_data[u], "email", Mail_), u)
                   r == save_to_google_sheet(user_info, fault, sheet, now)
               IN /\ r.propagated = None
                  /\ r.ret \in BOOLEAN
                  /\ Strikes(fault, sheet) => r.ret = FALSE
                  /\ r.ret = TRUE =>
                        /\ Len(r.sheet) >= 2
                        /\ r.sheet[Len(r.sheet)] = new_row(user_info, now)
                        /\ ~Strikes(fault, sheet))
    /\ [][\A u \in Users :
            writes'[u] = writes[u] + 1 =>
               /\ last_reply'[u].text \in {"success", "failure"}
               /\ Idle(u)'
               /\ last_reply'[u].text = "success" =>
                     (Len(sheet') > Len(sheet) /\ sheet'[Len(sheet')][3] = u)]_vars

\* a call failed after it had written the header, and a call succeeded
C7_Witness ==
    /\ calls = 2
    /\ Len(records) = 1
    /\ Len(sheet) = 2
    /\ \E u \in Users : last_reply[u] = Reply("failure", None) /\ writes[u] = 1

IsHeader(row, h) == \A k \in 1..4 : row[k] = h[k]

\* C8: on a sheet that starts empty, however many calls run, the sheet never
\* holds two header rows: a call on a sheet that has its header leaves the
\* sheet alone or appends exactly one row, its data row.
C8_HeaderOnce ==
    /\ [](Cardinality({k \in 1..Len(sheet) : IsHeader(sheet[k], headers)}) <= 1)
    /\ [][(calls' = calls + 1 /\ Len(sheet) >= 1) =>
            \/ sheet' = sheet
            \/ /\ Len(sheet') = Len(sheet) + 1
               /\ SubSeq(sheet', 1, Len(sheet)) = sheet
               /\ ~IsHeader(sheet'[Len(sheet')], headers)
               /\ Len(records') = Len(records) + 1]_vars

\* two calls in succession, both successful: one header, two data rows
C8_Witness ==
    /\ calls = 2
    /\ Len(records) = 2
    /\ Len(sheet) = 3
    /\ IsHeader(sheet[1], headers)

\* the header as the specification words it
SpecHeader ==
    << <<"F","u","l","l"," ","N","a","m","e">>,
       <<"E","m","a","i","l">>,
       <<"P","l","a","t","f","o","r","m"," ","U","s","e","r"," ","I","D">>,
       <<"R","e","g","i","s","t","r","a","t","i","o","n"," ","D","a","t","e">> >>

\* the header the program writes
WrittenHeader ==
    << <<"N","o","m","e"," ","C","o","g","n","o","m","e">>,
       <<"E","m","a","i","l">>,
       <<"I","D"," ","T","e","l","e","g","r","a","m">>,
       <<"D","a","t","a"," ","R","e","g","i","s","t","r","a","z","i","o","n","e">> >>

\* C9 as stated: row 1 of the sheet, once written, holds
\* ["Full Name", "Email", "Platform User ID", "Registration Date"].
C9_SpecHeaderRow ==
    Len(sheet) >= 1 => IsHeader(sheet[1], SpecHeader)

\* C9, amended: row 1 of the sheet, once written, always holds
\* ["Nome Cognome", "Email", "ID Telegram", "Data Registrazione"].
C9_HeaderRow ==
    Len(sheet) >= 1 => IsHeader(sheet[1], WrittenHeader)

\* data rows were appended below the header
C9_Witness ==
    /\ Len(sheet) = 3
    /\ ~IsHeader(sheet[3], WrittenHeader)

\* a RegistrationRecord as a row: a name, an email the validator accepts, a
\* user id, a timestamp YYYY-MM-DD HH:MM:SS
IsRegistrationRecord(row) ==
    /\ Len(row) = 4
    /\ row[1] \in Texts
    /\ is_valid_email(row[2])
    /\ row[3] \in Users
    /\ Len(row[4]) = 19
    /\ \A k \in 1..19 :
          IF k \in {5, 8} THEN row[4][k] = "-"
          ELSE IF k = 11 THEN row[4][k] = " "
          ELSE IF k \in {14, 17} THEN row[4][k] = ":"
          ELSE row[4][k] \in Digits

\* C10: on a sheet that starts empty, after any calls (successful or failed
\* at any step) the rows below row 1 are RegistrationRecords, they are the
\* records of the calls that returned True in the order of those calls, and
\* there are as many as calls that returned True.
C10_DataRows ==
    /\ Len(sheet) = 0 => Len(records) = 0
    /\ Len(sheet) >= 1 => Len(sheet) = Len(records) + 1
    /\ \A k \in 2..Len(sheet) :
          /\ IsRegistrationRecord(sheet[k])
          /\ k - 1 <= Len(records)
          /\ sheet[k][1] = records[k - 1].user_info["name"]
          /\ sheet[k][2] = records[k - 1].user_info["email"]
          /\ sheet[k][3] = records[k - 1].user_info["user_id"]

\* the records of two users, below the header in the order of their calls
C10_Witness ==
    /\ Len(records) = 2
    /\ Len(sheet) = 3
    /\ sheet[2][3] = 22 /\ sheet[2][1] = Mail_
    /\ sheet[3][3] = 11 /\ sheet[3][1] = Al_

\* C11: when a call has written the header and failed before its data row,
\* the sheet is the header alone; the next call that gets through finds A1,
\* writes no second header and puts its data row in row 2.
C11_HeaderWithoutRow ==
    /\ [](orphan =>
            /\ Len(sheet) >= 1
            /\ IsHeader(sheet[1], headers)
            /\ \A k \in 2..Len(sheet) : ~IsHeader(sheet[k], headers))
    /\ [][(calls' = calls + 1 /\ orphan /\ Len(sheet) = 1) =>
            \/ sheet' = sheet /\ records' = records
            \/ /\ Len(sheet') = 2
               /\ sheet'[1] = sheet[1]
               /\ IsRegistrationRecord(sheet'[2])
               /\ Len(records') = Len(records) + 1]_vars

\* the first call left the header alone, the second appended its row
C11_Witness ==
    /\ orphan
    /\ calls = 2
    /\ Len(records) = 1
    /\ Len(sheet) = 2
    /\ IsHeader(sheet[1], headers)
    /\ IsRegistrationRecord(sheet[2])

\* the form the specification gives for an email: the whole string is
\* local-part '@' domain '.' label, with at least one character of
\* [A-Za-z0-9._%+-], at least one of [A-Za-z0-9.-] and at least two letters
ClaimedForm(s) ==
    \E at \in 1..Len(s) : \E dot \in 1..Len(s) :
        /\ s[at] = "@" /\ s[dot] = "."
        /\ 1 < at /\ at + 1 < dot /\ dot + 2 <= Len(s)
        /\ \A k \in 1..Len(s) :
              IF k < at THEN s[k] \in Lower \cup Upper \cup Digits \cup {".", "_", "%", "+", "-"}
              ELSE IF k = at \/ k = dot THEN TRUE
              ELSE IF k < dot THEN s[k] \in Lower \cup Upper \cup Digits \cup {".", "-"}
              ELSE s[k] \in Lower \cup Upper

\* C12 as stated: is_valid_email returns True exactly for the strings that
\* have, as a whole, the form local-part@domain.label.
C12_ValidatorMatchesForm ==
    verdict # <<>> => (verdict[1] <=> ClaimedForm(candidate))

MailUpdate == [kind |-> "text", text |-> Mail_]
ReadFails == [step |-> "get", category |-> "Exception"]

\* C13: whatever the step and the exception class of a store failure, the
\* user gets the same reply and the session ends in the same state: every
\* failing call gives get_email the outcome of one fixed failing call, and
\* every step with a failed call sends the failure notice, empties
\* user_data and ends the conversation.
C13_FailureIndistinguishable ==
    /\ [](\A u \in Users :
            (InState(u, GET_EMAIL) /\ "name" \in DOMAIN user_data[u]) =>
               \A fault \in Faults : \A now \in Instants :
                  Strikes(fault, sheet) =>
                     LET h == get_email(user_data[u], u, MailUpdate, fault, sheet, now)
                         g == get_email(user_data[u], u, MailUpdate, ReadFails, sheet, now)
                     IN /\ h.raised = g.raised
                        /\ h.reply = g.reply
                        /\ h.user_data = g.user_data
                        /\ h.ret = g.ret
                        /\ h.saved = g.saved)
    /\ [][\A u \in Users :
            (writes'[u] = writes[u] + 1 /\ records' = records) =>
               /\ last_reply'[u] = Reply("failure", None)
               /\ sent'[u] = sent[u] \cup {Reply("failure", None)}
               /\ Idle(u)'
               /\ DOMAIN user_data'[u] = {}]_vars

\* two registrations failed at different steps: one of them had written the
\* header, and both users are left in the same state
C13_Witness ==
    /\ calls = 2
    /\ records = <<>>
    /\ Len(sheet) = 1
    /\ \A u \in Users :
          /\ Idle(u)
          /\ last_reply[u] = Reply("failure", None)
          /\ DOMAIN user_data[u] = {}
    /\ sent[11] = sent[22]

\* the update of user u goes through the ConversationHandler: one of the
\* handlers runs or the update is dropped
Dispatched(u, upd) ==
    LET handler == check_update(conversations, u, upd)
    IN IF handler = "start" THEN Start(u, upd)
       ELSE IF handler = "get_name" THEN GetName(u, upd)
       ELSE IF handler = "cancel" THEN Cancel(u, upd)
       ELSE IF handler = "none" THEN Ignored(u, upd)
       ELSE \E fault \in Faults, now \in Instants : GetEmail(u, upd, fault, now)

\* neither a plain text message nor the cancel command
Other(upd) == ~MessageHandler(upd) /\ ~CommandHandler(SubSeq(Cancel_, 2, 7), upd)

\* C14: in GET_NAME and GET_EMAIL an update that is neither a plain text nor
\* the cancel command (a photo, an unknown command, a second /start) finds
\* no handler and is dropped: no transition, no reply, name and email as
\* they were, no store call.
C14_OtherEventsIgnored ==
    /\ [](\A u \in DOMAIN conversations : \A upd \in Updates :
             Other(upd) => check_update(conversations, u, upd) = "none")
    /\ [][\A u \in Users : \A upd \in Updates :
            (~Idle(u) /\ Other(upd) /\ Dispatched(u, upd)) =>
               /\ dropped' = "conversation"
               /\ UNCHANGED flow]_vars

\* an update was dropped while its sender was asked for the email
C14_Witness ==
    /\ dropped = "conversation"
    /\ InState(11, GET_EMAIL)
    /\ heard[11] = Al_
    /\ Idle(22)

\* what the bot holds about user u
Session(u) ==
    <<IF u \in DOMAIN conversations THEN <<conversations[u]>> ELSE <<>>,
      user_data[u], last_reply[u], sent[u], writes[u], heard[u]>>

C16_OneHeaderAcrossUsers ==
    /\ [](\A j, k \in 1..Len(sheet) :
             (IsHeader(sheet[j], headers) /\ IsHeader(sheet[k], headers)) => j = k)
    /\ [][calls' = calls + 1 =>
            /\ Len(sheet') >= Len(sheet)
            /\ SubSeq(sheet', 1, Len(sheet)) = sheet
            /\ (Len(sheet) = 0 /\ Len(sheet') > 0) => IsHeader(sheet'[1], headers)
            /\ \A k \in (Len(sheet) + 1)..Len(sheet') :
                  IsHeader(sheet'[k], headers) => (k = 1 /\ Len(sheet) = 0)]_vars

\* both users registered, one header
C16_Witness ==
    /\ Len(sheet) = 3
    /\ IsHeader(sheet[1], headers)
    /\ sheet[2][3] = 11
    /\ sheet[3][3] = 22
    /\ ~orphan

C20_IdleIgnores ==
    /\ [](\A u \in Users : \A upd \in Updates :
            (Idle(u) /\ (MessageHandler(upd) \/ upd = CancelUpdate)) =>
               check_update(conversations, u, upd) = "none")
    /\ [][\A u \in Users :
            Idle(u) =>
               \/ Session(u)' = Session(u)
               \/ /\ InState(u, GET_NAME)'
                  /\ last_reply'[u] = Reply("greeting", None)
                  /\ sheet' = sheet
                  /\ calls' = calls]_vars
    /\ [][dropped' = "idle" => UNCHANGED flow]_vars

\* after a registration and a cancellation, an update of a user without a
\* conversation was dropped
C20_Witness ==
    /\ dropped = "idle"
    /\ Idle(11) /\ last_reply[11] = Reply("cancelled", None)
    /\ Idle(22) /\ last_reply[22] = Reply("success", GROUP_INVITE_LINK)

StartUpdate == [kind |-> "text", text |-> Start_]

\* C18: whatever debug_google_access meets (the sheet opens, it is not
\* found, any other error at any of its calls), it returns: main goes on to
\* poll with the flow and the store as they were, and then the bot takes a
\* start of every user without a conversation.
C18_DiagnosticHarmless ==
    /\ [](phase # "crashed")
    /\ [][phase = "startup" =>
            /\ phase' = "polling"
            /\ diag' \in {"opened", "not_found", "error"}
            /\ UNCHANGED flow
            /\ UNCHANGED <<inflight, queue, dropped>>]_vars
    /\ [][phase = "polling" => (phase' = "polling" /\ diag' = diag)]_vars
    /\ [](phase = "polling" =>
            \A u \in Users : Idle(u) => ENABLED Start(u, StartUpdate))

\* the diagnostic failed on an unclassified error and a user registered
\* afterwards
C18_Witness ==
    /\ diag = "error"
    /\ phase = "polling"
    /\ Len(records) = 1
    /\ Len(sheet) = 2

\* C17: from the acceptance of a valid email to the return of get_email no
\* other update is processed.  While the store write is pending the only
\* steps are the arrival of an update, which waits in the queue, and the
\* write itself; while the reply is pending, an arrival and the reply, which
\* is the success reply if the write succeeded and the failure reply if not
\* and ends the conversation.  A waiting update, a cancel of the same user
\* included, neither disables the write or the reply nor leaves the queue
\* before the handler has returned.
C17_CancelWaits ==
    /\ [][inflight # <<>> =>
            LET u == inflight[1].user
            IN \/ /\ inflight' = inflight
                  /\ Len(queue') = Len(queue) + 1
                  /\ dropped' = dropped
                  /\ UNCHANGED flow
               \/ /\ inflight[1].stage = "writing"
                  /\ calls' = calls + 1
                  /\ inflight' # <<>>
                  /\ inflight'[1].stage = "replying"
                  /\ inflight'[1].saved = (Len(records') = Len(records) + 1)
                  /\ UNCHANGED <<queue, conversations, user_data, last_reply, sent>>
               \/ /\ inflight[1].stage = "replying"
                  /\ inflight' = <<>>
                  /\ last_reply'[u] = registration_reply(inflight[1].saved)
                  /\ u \notin DOMAIN conversations'
                  /\ user_data'[u] = <<>>
                  /\ UNCHANGED <<queue, sheet, calls, records>>]_vars
    /\ [][Len(queue') < Len(queue) => inflight = <<>>]_vars
    /\ [](inflight # <<>> =>
            IF inflight[1].stage = "writing"
            THEN \E now \in Instants : ENABLED Write(NoFault, now)
            ELSE ENABLED ReplyStep)

\* user 11 sent a cancel while the write of their registration was pending:
\* the row is written, the success reply is sent, the conversation is over
\* and the cancel still waits
C17_Witness ==
    /\ inflight = <<>>
    /\ queue = <<[user |-> 11, upd |-> CancelUpdate, at |-> "writing"]>>
    /\ last_reply[11] = registration_reply(TRUE)
    /\ Len(records) = 1
    /\ records[1].user_info.user_id = 11
    /\ Idle(11)

====
